---- MODULE Spec2Model ----
(***************************************************************************)
(* NBA player skills: the offline transform (generate_players_json.py)    *)
(* and the read-only query service (index.py).                             *)
(*                                                                         *)
(* A table is a sequence of rows; a row is a function from column names    *)
(* to cells.  An absent value (pandas NaN / <NA>) is the empty tuple, a    *)
(* present number v is <<v>>.  A z-score (v - mean) / std is kept exact as *)
(* its signed square <<num, den>> (den > 0): x |-> sign(x) * x^2 is        *)
(* strictly increasing, so signed squares order exactly as the z-scores.   *)
(* A rounded z_score is an integer number of thousandths.                  *)
(***************************************************************************)
EXTENDS Integers, Sequences, FiniteSets, TLC

VARIABLES pc, df, df_averages, df_names, merged, final_df, file_state,
          players_json, players_data, response

vars == <<pc, df, df_averages, df_names, merged, final_df, file_state,
          players_json, players_data, response>>

\* Bounds of the explored inputs.
NumRows == 2
MaxVal == 1
MaxSplit == 2
NumIdRows == 2
NumAvgRows == 2
NumNameRows == 2
MaxPlayers == 2
MaxQueryLen == 2
MaxLimit == 2
MaxOffset == 2

skills == <<"FG_PCT", "FG3_PCT", "FT_PCT", "REB", "AST", "STL", "BLK", "TOV", "PF", "PTS">>

SkillSet == {skills[k] : k \in 1..Len(skills)}

NaN == <<>>

IsNaN(x) == x = <<>>

\* Decimal numerals of the integers the bounded inputs use.
Numerals == <<"0", "1", "2", "3", "4", "5", "6", "7", "8", "9">>

\* pd.to_numeric(..., errors="coerce"): an integer numeral, or one with a
\* trailing ".0", parses to its number; any other cell (text, empty) is NaN.
to_numeric(cell) ==
    IF \E n \in 1..Len(Numerals) : cell = Numerals[n]
    THEN <<(CHOOSE n \in 1..Len(Numerals) : cell = Numerals[n]) - 1>>
    ELSE IF \E n \in 1..Len(Numerals) : cell = Numerals[n] \o ".0"
    THEN <<(CHOOSE n \in 1..Len(Numerals) : cell = Numerals[n] \o ".0") - 1>>
    ELSE NaN

\* .astype("Int64").astype(str).str.strip(): <NA> prints as the text "<NA>".
Int64Str(x) == IF IsNaN(x) THEN "<NA>" ELSE Numerals[x[1] + 1]

\* .fillna(0)
fillna0(x) == IF IsNaN(x) THEN <<0>> ELSE x

\* Player_ID normalization of the primary and the averages source.
NormalizeId(cell) == Int64Str(to_numeric(cell))

\* Player_ID normalization of the name source.
NormalizeNameId(cell) == Int64Str(fillna0(to_numeric(cell)))

\* A row with column c set to v.
WithCol(row, c, v) == [d \in DOMAIN row \cup {c} |-> IF d = c THEN v ELSE row[d]]

\* t.iloc[1:]
DropFirst(t) == IF Len(t) = 0 THEN t ELSE SubSeq(t, 2, Len(t))

(***************************************************************************)
(* Column statistics over the present values of column c of table t.       *)
(***************************************************************************)
RECURSIVE ColCount(_, _, _)
ColCount(t, c, i) ==
    IF i = 0 THEN 0
    ELSE ColCount(t, c, i - 1) + (IF IsNaN(t[i][c]) THEN 0 ELSE 1)

RECURSIVE ColSum(_, _, _)
ColSum(t, c, i) ==
    IF i = 0 THEN 0
    ELSE ColSum(t, c, i - 1) + (IF IsNaN(t[i][c]) THEN 0 ELSE t[i][c][1])

RECURSIVE ColSumSq(_, _, _)
ColSumSq(t, c, i) ==
    IF i = 0 THEN 0
    ELSE ColSumSq(t, c, i - 1) + (IF IsNaN(t[i][c]) THEN 0 ELSE t[i][c][1] * t[i][c][1])

\* n * (sum of squared deviations from the mean) = n * Q - S^2.
Dev(t, c) ==
    ColCount(t, c, Len(t)) * ColSumSq(t, c, Len(t))
        - ColSum(t, c, Len(t)) * ColSum(t, c, Len(t))

\* `std > 0`: Series.std() is the sample deviation (ddof = 1), NaN with fewer
\* than two present values, and NaN > 0 is False.
StdPositive(t, c) == ColCount(t, c, Len(t)) >= 2 /\ Dev(t, c) > 0

Sgn(a) == IF a > 0 THEN 1 ELSE IF a < 0 THEN -1 ELSE 0

\* (df[skill] - mean) / std for row i, as a signed square:
\*   v - mean = (n v - S) / n,  std^2 = (n Q - S^2) / (n (n - 1)),
\*   z^2 = (n v - S)^2 (n - 1) / (n (n Q - S^2)).
Standardize(t, c, i) ==
    LET n == ColCount(t, c, Len(t))
        a == n * t[i][c][1] - ColSum(t, c, Len(t))
    IN  IF IsNaN(t[i][c]) THEN NaN
        ELSE <<Sgn(a) * a * a * (n - 1), n * Dev(t, c)>>

\* The scalar 0 assigned to the whole column.
ZeroZ == <<0, 1>>

\* ZValue without the `std > 0` guard's else branch: 0 / 0 is NaN.
ZValueUnguarded(t, c, i) == IF StdPositive(t, c) THEN Standardize(t, c, i) ELSE NaN

\* The value of column skill + "_z" in row i.
ZValue(t, c, i) == IF StdPositive(t, c) THEN Standardize(t, c, i) ELSE ZeroZ

ZLess(x, y) == x[1] * y[2] < y[1] * x[2]

ZEq(x, y) == x[1] * y[2] = y[1] * x[2]

z_cols == [k \in 1..Len(skills) |-> skills[k] \o "_z"]

\* .str.replace("_z", "")
StripZ(c) == CHOOSE s \in SkillSet : s \o "_z" = c

\* Row with the ten z-score columns added.
RowWithZ(t, i) ==
    [d \in DOMAIN t[i] \cup {z_cols[k] : k \in 1..Len(skills)} |->
        IF d \in DOMAIN t[i] THEN t[i][d] ELSE ZValue(t, StripZ(d), i)]

\* dropna(subset=z_cols, how="all") keeps a row with some z-score present.
AllZMissing(row) == \A k \in 1..Len(z_cols) : IsNaN(row[z_cols[k]])

\* idxmax(axis=1, skipna=True) over z_cols[1..k]: position of the first
\* maximum among the present values, 0 when none is present.
RECURSIVE ArgMax(_, _)
ArgMax(row, k) ==
    IF k = 0 THEN 0
    ELSE LET p == ArgMax(row, k - 1)
             v == row[z_cols[k]]
         IN  IF IsNaN(v) THEN p
             ELSE IF p = 0 THEN k
             ELSE IF ZLess(row[z_cols[p]], v) THEN k ELSE p

\* IdxMax taking the last of several maxima.
IdxMaxLast(row) ==
    LET present == {k \in 1..Len(z_cols) : ~IsNaN(row[z_cols[k]])}
        p == CHOOSE k \in present :
                /\ \A j \in present : ~ZLess(row[z_cols[k]], row[z_cols[j]])
                /\ \A j \in present : j > k => ZLess(row[z_cols[j]], row[z_cols[k]])
    IN  IF present = {} THEN "" ELSE StripZ(z_cols[p])

IdxMax(row) ==
    LET p == ArgMax(row, Len(z_cols))
    IN  IF p = 0 THEN "" ELSE StripZ(z_cols[p])

\* max(axis=1, skipna=True) over z_cols[1..k].
RECURSIVE RowMax(_, _)
RowMax(row, k) ==
    IF k = 0 THEN NaN
    ELSE LET m == RowMax(row, k - 1)
             v == row[z_cols[k]]
         IN  IF IsNaN(v) THEN m
             ELSE IF IsNaN(m) THEN v
             ELSE IF ZLess(m, v) THEN v ELSE m

\* Floor of the square root of x >= 0, by bisection on [lo, hi).
RECURSIVE ISqrt(_, _, _)
ISqrt(x, lo, hi) ==
    IF hi - lo <= 1 THEN lo
    ELSE LET mid == (lo + hi) \div 2
         IN  IF mid * mid <= x THEN ISqrt(x, mid, hi) ELSE ISqrt(x, lo, mid)

Abs(a) == IF a < 0 THEN -a ELSE a

\* .round(3) of a present z-score, in thousandths.  With m = floor(2000 |z|),
\* the nearest integer to 1000 |z| is (m + 1) \div 2; an exact half (2000 |z|
\* an odd integer) goes to the even neighbour, as numpy rounds.
Round3(z) ==
    LET q == (4000000 * Abs(z[1])) \div z[2]
        m == ISqrt(q, 0, 46341)
        up == (m + 1) \div 2
        half == m % 2 = 1 /\ m * m * z[2] = 4000000 * Abs(z[1])
        k == IF half /\ up % 2 = 1 THEN up - 1 ELSE up
    IN  Sgn(z[1]) * k

(***************************************************************************)
(* DataFrame.merge on Player_ID.  A column other than the key carried by   *)
(* both frames gets the left suffix on the left copy and the right suffix  *)
(* on the right copy.  Rows come out in the order of the left frame, the   *)
(* matches of one left row in the order of the right frame.                *)
(***************************************************************************)
JoinRow(l, r, ls, rs) ==
    LET both == (DOMAIN l \cap DOMAIN r) \ {"Player_ID"}
        LName(c) == IF c \in both THEN c \o ls ELSE c
        RName(c) == IF c \in both THEN c \o rs ELSE c
        lcols == {LName(c) : c \in DOMAIN l}
        rcols == {RName(c) : c \in DOMAIN r \ {"Player_ID"}}
    IN  [d \in lcols \cup rcols |->
            IF d \in lcols
            THEN l[CHOOSE c \in DOMAIN l : LName(c) = d]
            ELSE r[CHOOSE c \in DOMAIN r \ {"Player_ID"} : RName(c) = d]]

RECURSIVE RightMatches(_, _, _, _, _)
RightMatches(l, right, j, ls, rs) ==
    IF j = 0 THEN <<>>
    ELSE RightMatches(l, right, j - 1, ls, rs)
            \o (IF right[j]["Player_ID"] = l["Player_ID"]
                THEN <<JoinRow(l, right[j], ls, rs)>> ELSE <<>>)

\* how="inner" (the default)
RECURSIVE InnerMerge(_, _, _, _, _)
InnerMerge(left, right, i, ls, rs) ==
    IF i = 0 THEN <<>>
    ELSE InnerMerge(left, right, i - 1, ls, rs)
            \o RightMatches(left[i], right, Len(right), ls, rs)

\* how="left": a left row without a match is kept, the right columns NaN.
RECURSIVE LeftMerge(_, _, _, _)
LeftMerge(left, right, i, rcol) ==
    IF i = 0 THEN <<>>
    ELSE LET ms == RightMatches(left[i], right, Len(right), "_x", "_y")
         IN  LeftMerge(left, right, i - 1, rcol)
                \o (IF Len(ms) = 0 THEN <<WithCol(left[i], rcol, NaN)>> ELSE ms)

\* merged = df.merge(df_averages, on="Player_ID", suffixes=("", "_raw"))
MergeWithAverages(left, right) == InnerMerge(left, right, Len(left), "", "_raw")

\* merged.merge(df_names[['Player_ID', 'Name']], on='Player_ID', how='left')
MergeWithNames(left, right) == LeftMerge(left, right, Len(left), "Name")

\* lambda row: row[row["best_skill"]]
BestSkillRawValue(row) == row[row["best_skill"]]

\* One record of players.json.
OutputRecord(row) ==
    [player_id |-> row["Player_ID"],
     name |-> row["Name"],
     best_skill |-> row["best_skill"],
     z_score |-> IF IsNaN(row["best_score"]) THEN NaN ELSE Round3(row["best_score"]),
     raw_value |-> row["best_skill_raw_value"]]

(***************************************************************************)
(* The transform, one action per step of the script.                       *)
(***************************************************************************)
\* df = df.iloc[1:]; df_averages = df_averages.iloc[1:]
DropHeaderRows ==
    /\ pc = "drop_header"
    /\ df' = DropFirst(df)
    /\ df_averages' = DropFirst(df_averages)
    /\ pc' = "normalize_ids"
    /\ UNCHANGED <<df_names, merged, final_df, file_state, players_json,
                   players_data, response>>

NormalizeIds ==
    /\ pc = "normalize_ids"
    /\ df' = [i \in 1..Len(df) |->
                WithCol(df[i], "Player_ID", NormalizeId(df[i]["Player_ID"]))]
    /\ df_averages' = [i \in 1..Len(df_averages) |->
                WithCol(df_averages[i], "Player_ID",
                        NormalizeId(df_averages[i]["Player_ID"]))]
    /\ df_names' = [i \in 1..Len(df_names) |->
                WithCol(df_names[i], "Player_ID",
                        NormalizeNameId(df_names[i]["Player_ID"]))]
    /\ pc' = "coerce_skills"
    /\ UNCHANGED <<merged, final_df, file_state, players_json, players_data,
                   response>>

CoerceSkills ==
    /\ pc = "coerce_skills"
    /\ df' = [i \in 1..Len(df) |->
                [c \in DOMAIN df[i] |->
                    IF c \in SkillSet THEN to_numeric(df[i][c]) ELSE df[i][c]]]
    /\ pc' = "z_scores"
    /\ UNCHANGED <<df_averages, df_names, merged, final_df, file_state,
                   players_json, players_data, response>>

ZScores ==
    /\ pc = "z_scores"
    /\ df' = [i \in 1..Len(df) |-> RowWithZ(df, i)]
    /\ pc' = "dropna"
    /\ UNCHANGED <<df_averages, df_names, merged, final_df, file_state,
                   players_json, players_data, response>>

DropNa ==
    /\ pc = "dropna"
    /\ df' = SelectSeq(df, LAMBDA row : ~AllZMissing(row))
    /\ pc' = "best_skill"
    /\ UNCHANGED <<df_averages, df_names, merged, final_df, file_state,
                   players_json, players_data, response>>

BestSkill ==
    /\ pc = "best_skill"
    /\ df' = [i \in 1..Len(df) |->
                WithCol(WithCol(df[i], "best_skill", IdxMax(df[i])),
                        "best_score", RowMax(df[i], Len(z_cols)))]
    /\ pc' = "merge"
    /\ UNCHANGED <<df_averages, df_names, merged, final_df, file_state,
                   players_json, players_data, response>>

MergeAverages ==
    /\ pc = "merge"
    /\ merged' = MergeWithAverages(df, df_averages)
    /\ pc' = "raw_value"
    /\ UNCHANGED <<df, df_averages, df_names, final_df, file_state,
                   players_json, players_data, response>>

\* merged.apply(..., axis=1): a row whose best_skill names no column raises;
\* on an empty frame apply returns a frame, and whether assigning it to one
\* column raises depends on the pandas release, so either outcome is allowed.
RawValue ==
    /\ pc = "raw_value"
    /\ \E raises \in (IF Len(merged) = 0 THEN {TRUE, FALSE} ELSE {FALSE}) :
         IF raises \/ \E i \in 1..Len(merged) :
                         merged[i]["best_skill"] \notin DOMAIN merged[i]
         THEN pc' = "failed" /\ UNCHANGED merged
         ELSE /\ merged' = [i \in 1..Len(merged) |->
                    WithCol(merged[i], "best_skill_raw_value",
                            BestSkillRawValue(merged[i]))]
              /\ pc' = "merge_names"
    /\ UNCHANGED <<df, df_averages, df_names, final_df, file_state,
                   players_json, players_data, response>>

MergeNames ==
    /\ pc = "merge_names"
    /\ final_df' = MergeWithNames(merged, df_names)
    /\ pc' = "export"
    /\ UNCHANGED <<df, df_averages, df_names, merged, file_state,
                   players_json, players_data, response>>

Export ==
    /\ pc = "export"
    /\ players_json' = [i \in 1..Len(final_df) |-> OutputRecord(final_df[i])]
    /\ file_state' = "ok"
    /\ pc' = "exported"
    /\ UNCHANGED <<df, df_averages, df_names, merged, final_df,
                   players_data, response>>

Transform ==
    \/ DropHeaderRows
    \/ NormalizeIds
    \/ CoerceSkills
    \/ ZScores
    \/ DropNa
    \/ BestSkill
    \/ MergeAverages
    \/ RawValue
    \/ MergeNames
    \/ Export

(***************************************************************************)
(* Inputs: the three CSV files as read.                                    *)
(***************************************************************************)
\* A stat cell: text that is no number, or the numeral of 0..MaxVal.
StatCells == {"-"} \cup {Numerals[v + 1] : v \in 0..MaxVal}

\* A primary row whose categories up to position split hold cell a and the
\* later ones cell b.
PrimaryRow(id, a, b, split) ==
    [c \in {"Player_ID"} \cup SkillSet |->
        IF c = "Player_ID" THEN id
        ELSE IF \E k \in 1..split : skills[k] = c THEN a ELSE b]

\* An averages row: every category holds the per-game average v.
AveragesRow(id, v) ==
    [c \in {"Player_ID"} \cup SkillSet |-> IF c = "Player_ID" THEN id ELSE <<v>>]

Letters == <<"A", "b", "C", "d", "E", "f", "G", "h", "I", "j">>

NameRow(id, k) == [c \in {"Player_ID", "Name"} |-> IF c = "Player_ID" THEN id ELSE <<<<Letters[k]>>>>]

\* Row 0 of the primary and the averages file: the secondary header.
PrimaryHeader == PrimaryRow("Player_ID", "-", "-", 1)

AveragesHeader == AveragesRow("Player_ID", 0)

NoResponse == [op |-> "none"]

\* Rosters with distinct well-formed identifiers whose stat columns vary:
\* NumRows players with arbitrary cells and one player with every stat on
\* record.  Every player has averages (always MaxVal + 1, so never a primary
\* value); the last player is missing from the name file.
InitStats ==
    \E colA \in [1..NumRows -> StatCells], colB \in [1..NumRows -> StatCells],
       split \in 1..MaxSplit :
        /\ df = <<PrimaryHeader>> \o
                [i \in 1..NumRows |-> PrimaryRow(Numerals[i + 1], colA[i], colB[i], split)]
                \o <<PrimaryRow(Numerals[NumRows + 2], "0", "1", split)>>
        /\ df_averages = <<AveragesHeader>> \o
                [i \in 1..(NumRows + 1) |-> AveragesRow(Numerals[i + 1], MaxVal + 1)]
        /\ df_names = [i \in 1..NumRows |-> NameRow(Numerals[i + 1], i)]
        /\ pc = "drop_header"
        /\ merged = <<>>
        /\ final_df = <<>>
        /\ file_state = "missing"
        /\ players_json = <<>>
        /\ players_data = <<>>
        /\ response = NoResponse

\* An identifier cell: integer numerals, one with a trailing ".0", text that
\* is no number, and the empty cell.
IdCells == {"0", "1", "1.0", "abc", ""}

\* Rosters whose stat columns are fixed and whose identifier cells vary, in
\* all three files.
InitIds ==
    \E ids \in [1..NumIdRows -> IdCells], avgIds \in [1..NumAvgRows -> IdCells],
       nameIds \in [1..NumNameRows -> IdCells] :
        /\ df = <<PrimaryHeader>> \o
                [i \in 1..NumIdRows |-> PrimaryRow(ids[i], Numerals[(i % 2) + 1], "1", 1)]
        /\ df_averages = <<AveragesHeader>> \o
                [i \in 1..NumAvgRows |-> AveragesRow(avgIds[i], i)]
        /\ df_names = [i \in 1..NumNameRows |-> NameRow(nameIds[i], i)]
        /\ pc = "drop_header"
        /\ merged = <<>>
        /\ final_df = <<>>
        /\ file_state = "missing"
        /\ players_json = <<>>
        /\ players_data = <<>>
        /\ response = NoResponse

Init == InitStats

Next == Transform

Spec == Init /\ [][Next]_vars

SpecJoin == InitIds /\ [][Next]_vars

(***************************************************************************)
(* The query service.  A name is a sequence of characters; a skill code is *)
(* a string.  A response records the endpoint, its arguments, the HTTP     *)
(* status (500: an unhandled exception) and the body.                      *)
(***************************************************************************)
UpperCase == <<"A", "B", "C", "D", "E", "F", "G", "H", "I", "J">>

LowerCase == <<"a", "b", "c", "d", "e", "f", "g", "h", "i", "j">>

\* str.lower() of one character.
LowerChar(ch) ==
    IF \E k \in 1..Len(UpperCase) : UpperCase[k] = ch
    THEN LowerCase[CHOOSE k \in 1..Len(UpperCase) : UpperCase[k] = ch]
    ELSE ch

\* str.lower()
Lower(str) == [k \in 1..Len(str) |-> LowerChar(str[k])]

\* `sub in str`
Contains(str, sub) ==
    \E k \in 0..(Len(str) - Len(sub)) : SubSeq(str, k + 1, k + Len(sub)) = sub

\* str.upper() of a skill code, over the codes the requests and records use.
Upper(code) ==
    CASE code = "pts" -> "PTS"
      [] code = "Pts" -> "PTS"
      [] OTHER -> code

Min(a, b) == IF a < b THEN a ELSE b

Max(a, b) == IF a > b THEN a ELSE b

\* list[start:end] of Python: a negative bound counts from the end, and
\* both bounds are then clipped to the list.
PySlice(list, start, end) ==
    LET n == Len(list)
        lo == IF start < 0 THEN Max(start + n, 0) ELSE Min(start, n)
        hi == IF end < 0 THEN Max(end + n, 0) ELSE Min(end, n)
    IN  IF lo < hi THEN SubSeq(list, lo + 1, hi) ELSE <<>>

\* The cap on limit in get_all_players.
MAX_LIMIT == 100

\* [p for p in players_data if p.get('best_skill', '').upper() == skill.upper()]
BySkill(players, skill) ==
    SelectSeq(players, LAMBDA p : Upper(p.best_skill) = Upper(skill))

\* sorted(..., key=z_score, reverse=True): descending and stable, so records
\* with equal keys keep their order.
RECURSIVE InsertDesc(_, _)
InsertDesc(sorted, p) ==
    IF Len(sorted) = 0 THEN <<p>>
    ELSE IF Head(sorted).z_score >= p.z_score
         THEN <<Head(sorted)>> \o InsertDesc(Tail(sorted), p)
         ELSE <<p>> \o sorted

RECURSIVE SortedDesc(_, _)
SortedDesc(list, k) ==
    IF k = 0 THEN <<>> ELSE InsertDesc(SortedDesc(list, k - 1), list[k])

\* Service start: players_data = load_players().  Only FileNotFoundError is
\* caught; any other exception leaves the module import, and the service,
\* failed.
load_players ==
    /\ pc = "deployed"
    /\ IF file_state = "ok"
       THEN players_data' = players_json /\ pc' = "serving"
       ELSE IF file_state = "missing"
       THEN players_data' = <<>> /\ pc' = "serving"
       ELSE players_data' = <<>> /\ pc' = "crashed"
    /\ UNCHANGED <<df, df_averages, df_names, merged, final_df, file_state,
                   players_json, response>>

Unchanged == UNCHANGED <<pc, df, df_averages, df_names, merged, final_df,
                         file_state, players_json, players_data>>

\* GET /
read_root ==
    /\ pc = "serving"
    /\ response' = [op |-> "root", status |-> 200,
                    total_players |-> Len(players_data)]
    /\ Unchanged

\* GET /health
health_check ==
    /\ pc = "serving"
    /\ response' = [op |-> "health", status |-> 200,
                    players_loaded |-> Len(players_data)]
    /\ Unchanged

\* The matches of get_player: player['name'].lower() of a null name raises.
NameMatches(name) ==
    SelectSeq(players_data, LAMBDA p : Contains(Lower(p.name[1]), Lower(name)))

\* GET /player/{name}
GetPlayerResponse(name) ==
    IF \E k \in 1..Len(players_data) : IsNaN(players_data[k].name)
    THEN [op |-> "player", name |-> name, status |-> 500]
    ELSE LET matches == NameMatches(name)
         IN  IF Len(matches) = 0
             THEN [op |-> "player", name |-> name, status |-> 404]
             ELSE IF Len(matches) = 1
             THEN [op |-> "player", name |-> name, status |-> 200, count |-> 1,
                   data |-> matches[1]]
             ELSE [op |-> "player", name |-> name, status |-> 200,
                   count |-> Len(matches), data |-> matches]

\* GET /players; an omitted skill is the empty string, which `if skill:`
\* treats as None.
GetAllPlayersResponse(limit, offset, skill) ==
    LET capped == Min(limit, MAX_LIMIT)
        filtered_players ==
            IF skill # "" THEN BySkill(players_data, skill) ELSE players_data
        paginated == PySlice(filtered_players, offset, offset + capped)
    IN  [op |-> "players", args |-> <<limit, offset, skill>>, status |-> 200,
         total_players |-> Len(filtered_players), showing |-> Len(paginated),
         offset |-> offset, limit |-> capped, filter |-> skill,
         data |-> paginated]

\* GET /player_id/{player_id}
GetPlayerByIdResponse(player_id) ==
    IF \E k \in 1..Len(players_data) : players_data[k].player_id = player_id
    THEN [op |-> "player_id", id |-> player_id, status |-> 200,
          data |-> players_data[CHOOSE k \in 1..Len(players_data) :
                        /\ players_data[k].player_id = player_id
                        /\ \A j \in 1..(k - 1) : players_data[j].player_id # player_id]]
    ELSE [op |-> "player_id", id |-> player_id, status |-> 404]

\* round(x, 2) of the percentage count / total * 100, in hundredths.
Percentage(count, total) ==
    IF total > 0
    THEN LET q == (20000 * count) \div total
             up == (q + 1) \div 2
             half == q % 2 = 1 /\ q * total = 20000 * count
         IN  IF half /\ up % 2 = 1 THEN up - 1 ELSE up
    ELSE 0

\* Number of the first k records whose best_skill is skill.
RECURSIVE SkillCount(_, _)
SkillCount(skill, k) ==
    IF k = 0 THEN 0
    ELSE SkillCount(skill, k - 1) + (IF players_data[k].best_skill = skill THEN 1 ELSE 0)

\* The skills in the order the tally first meets them.
RECURSIVE SkillsSeen(_)
SkillsSeen(k) ==
    IF k = 0 THEN <<>>
    ELSE LET seen == SkillsSeen(k - 1)
         IN  IF \E j \in 1..Len(seen) : seen[j] = players_data[k].best_skill
             THEN seen ELSE Append(seen, players_data[k].best_skill)

\* sorted(skills_count.items(), key=count, reverse=True)
RECURSIVE InsertByCount(_, _)
InsertByCount(sorted, e) ==
    IF Len(sorted) = 0 THEN <<e>>
    ELSE IF Head(sorted).count >= e.count
         THEN <<Head(sorted)>> \o InsertByCount(Tail(sorted), e)
         ELSE <<e>> \o sorted

RECURSIVE SkillsByCount(_, _)
SkillsByCount(seen, k) ==
    IF k = 0 THEN <<>>
    ELSE InsertByCount(SkillsByCount(seen, k - 1),
            [skill |-> seen[k],
             count |-> SkillCount(seen[k], Len(players_data)),
             percentage |-> Percentage(SkillCount(seen[k], Len(players_data)),
                                       Len(players_data))])

\* GET /skills
GetSkillsSummaryResponse ==
    [op |-> "skills", status |-> 200, total_players |-> Len(players_data),
     skills |-> SkillsByCount(SkillsSeen(Len(players_data)),
                              Len(SkillsSeen(Len(players_data))))]

\* GET /top/{skill}
GetTopBySkillResponse(skill, limit) ==
    LET skill_players == BySkill(players_data, skill)
        sorted_players ==
            PySlice(SortedDesc(skill_players, Len(skill_players)), 0, limit)
    IN  IF Len(skill_players) = 0
        THEN [op |-> "top", args |-> <<skill, limit>>, status |-> 404]
        ELSE [op |-> "top", args |-> <<skill, limit>>, status |-> 200,
              skill |-> Upper(skill), showing |-> Len(sorted_players),
              data |-> sorted_players]

\* The requests explored.
Chars == {"a", "B"}

Queries == UNION {[1..n -> Chars] : n \in 0..MaxQueryLen}

Limits == (-1..MaxLimit) \cup {MAX_LIMIT + 1}

Offsets == -1..MaxOffset

SkillCodes == {"PTS", "Pts", "REB"}

get_player ==
    /\ pc = "serving"
    /\ \E name \in Queries : response' = GetPlayerResponse(name)
    /\ Unchanged

get_all_players ==
    /\ pc = "serving"
    /\ \E limit \in Limits, offset \in Offsets, skill \in SkillCodes \cup {""} :
         response' = GetAllPlayersResponse(limit, offset, skill)
    /\ Unchanged

get_player_by_id ==
    /\ pc = "serving"
    /\ \E k \in 0..MaxPlayers : response' = GetPlayerByIdResponse(Numerals[k + 2])
    /\ Unchanged

get_skills_summary ==
    /\ pc = "serving"
    /\ response' = GetSkillsSummaryResponse
    /\ Unchanged

get_top_by_skill ==
    /\ pc = "serving"
    /\ \E skill \in SkillCodes, limit \in Limits :
         response' = GetTopBySkillResponse(skill, limit)
    /\ Unchanged

Service ==
    \/ load_players
    \/ read_root
    \/ health_check
    \/ get_player
    \/ get_all_players
    \/ get_player_by_id
    \/ get_skills_summary
    \/ get_top_by_skill

\* The records players.json can hold: the shape the transform exports, the
\* name null for a player missing from the name file.
SnapshotNames == {<<<<"A", "b">>>>, <<<<"b">>>>, NaN}

SnapshotSkills == {"AST", "PTS"}

SnapshotScores == {-707, 1155}

SnapshotRecord(k, name, skill, score) ==
    [player_id |-> Numerals[k + 1], name |-> name, best_skill |-> skill,
     z_score |-> score, raw_value |-> <<1>>]

Snapshots ==
    UNION {
        {[k \in 1..n |-> SnapshotRecord(k, f[k][1], f[k][2], f[k][3])] :
            f \in [1..n -> SnapshotNames \X SnapshotSkills \X SnapshotScores]} :
        n \in 0..MaxPlayers}

\* The deployed service before its start: players.json is absent, cannot be
\* read, holds no valid JSON, or holds a snapshot.
InitService ==
    /\ pc = "deployed"
    /\ \/ file_state \in {"missing", "denied", "corrupt"} /\ players_json = <<>>
       \/ file_state = "ok" /\ players_json \in Snapshots
    /\ df = <<>>
    /\ df_averages = <<>>
    /\ df_names = <<>>
    /\ merged = <<>>
    /\ final_df = <<>>
    /\ players_data = <<>>
    /\ response = NoResponse

SpecService == InitService /\ [][Service]_vars

(***************************************************************************)
(* Properties of the transform.                                            *)
(***************************************************************************)
\* Position of a category in the canonical order.
SkillPos(c) == CHOOSE k \in 1..Len(skills) : skills[k] = c

SSq(x) == Sgn(x) * x * x

\* t thousandths is z rounded to 3 decimals: |1000 z - t| <= 1/2, i.e.
\* 2t - 1 <= 2000 z <= 2t + 1, compared as signed squares.
IsRounded3(z, t) ==
    /\ SSq(2 * t - 1) * z[2] <= 4000000 * z[1]
    /\ 4000000 * z[1] <= SSq(2 * t + 1) * z[2]

\* The z-scores of row r that are present.
PresentZ(r) == {k \in 1..Len(skills) : ~IsNaN(r[z_cols[k]])}

\* C1: every emitted record's z_score is the maximum of the player's present
\* z-scores rounded to 3 decimals, and its best_skill is the first category
\* in canonical order that achieves that maximum.
C1_BestSkillIsFirstMax ==
    pc = "exported" =>
        /\ Len(players_json) = Len(final_df)
        /\ \A i \in 1..Len(players_json) :
            LET r == final_df[i]
                p == players_json[i]
            IN  /\ p.best_skill \in SkillSet
                /\ SkillPos(p.best_skill) \in PresentZ(r)
                /\ \A k \in PresentZ(r) :
                     ~ZLess(r[z_cols[SkillPos(p.best_skill)]], r[z_cols[k]])
                /\ \A k \in PresentZ(r) :
                     k < SkillPos(p.best_skill) =>
                        ZLess(r[z_cols[k]], r[z_cols[SkillPos(p.best_skill)]])
                /\ ~IsNaN(r["best_score"])
                /\ IsRounded3(r[z_cols[SkillPos(p.best_skill)]], p.z_score)

\* An emitted player with an absent z-score, a nonzero maximum and two
\* categories tied for it.
C1_Witness ==
    /\ pc = "exported"
    /\ \E i \in 1..Len(players_json) :
        LET r == final_df[i]
            b == SkillPos(players_json[i].best_skill)
        IN  /\ PresentZ(r) # 1..Len(skills)
            /\ players_json[i].z_score # 0
            /\ \E k \in PresentZ(r) : k # b /\ ZEq(r[z_cols[k]], r[z_cols[b]])

\* The averages source's rows for player id.
AveragesOf(id) == {j \in 1..Len(df_averages) : df_averages[j]["Player_ID"] = id}

\* C2: every emitted record's raw_value is the averages source's value for
\* that player in the column named by best_skill.
C2_RawValueFromAverages ==
    pc = "exported" =>
        \A i \in 1..Len(players_json) :
            \E j \in AveragesOf(players_json[i].player_id) :
                players_json[i].raw_value = df_averages[j][players_json[i].best_skill]

\* All ten stat values of row r are absent in the primary source.
AllStatsAbsent(r) == \A c \in SkillSet : IsNaN(r[c])

\* C3: no player whose ten primary stat values are all absent is emitted.
C3_NoAllAbsentPlayerEmitted ==
    pc = "exported" => \A i \in 1..Len(final_df) : ~AllStatsAbsent(final_df[i])

\* Category c has some present value and no spread over the roster df.
ZeroStd(c) == ColCount(df, c, Len(df)) >= 1 /\ Dev(df, c) = 0

IsZero(z) == ~IsNaN(z) /\ z[1] = 0

C9_UnparseableIdNeverJoined ==
    pc = "exported" =>
        \A i \in 1..Len(players_json) :
            \A cell \in IdCells :
                IsNaN(to_numeric(cell)) => players_json[i].player_id # NormalizeId(cell)

\* C10: at most one record is emitted per primary row that survives the
\* all-absent filter, and the left join with names keeps the row count.
C10_OneRecordPerPlayer ==
    pc = "exported" =>
        /\ Len(players_json) <= Len(df)
        /\ Len(final_df) = Len(merged)

(***************************************************************************)
(* Properties of the query service.                                        *)
(***************************************************************************)
\* The records whose best_skill equals skill case-insensitively, or all of
\* them when no skill is given.
Collection(skill) ==
    IF skill = "" THEN players_data
    ELSE SelectSeq(players_data, LAMBDA p : Upper(p.best_skill) = Upper(skill))

\* C5: /players succeeds with exactly the records at the positions i of the
\* (optionally skill-filtered) collection with offset <= i < offset + L,
\* L = min(limit, 100), for every integer limit (negative and oversized
\* included), and total_players is the size of that collection.  Stated for
\* offset >= 0, where "the positions from offset" and "empty when offset is
\* outside the collection" agree.
C5_ListAllExactSlice ==
    (response.op = "players" /\ response.args[2] >= 0) =>
        LET limit == response.args[1]
            offset == response.args[2]
            coll == Collection(response.args[3])
            hi == Min(offset + Min(limit, MAX_LIMIT), Len(coll))
        IN  /\ response.status = 200
            /\ response.total_players = Len(coll)
            /\ response.data = IF offset < hi THEN SubSeq(coll, offset + 1, hi) ELSE <<>>

\* C6: /top/{skill} is not-found exactly when no record has that best_skill;
\* otherwise it returns at most limit records (none for a limit below 1), all
\* with that best_skill, by non-increasing z_score, and no record left out
\* has a z_score above a returned one.
C6_TopBySkill ==
    response.op = "top" =>
        LET skill == response.args[1]
            limit == response.args[2]
            coll == Collection(skill)
        IN  IF Len(coll) = 0 THEN response.status = 404
            ELSE /\ response.status = 200
                 /\ Len(response.data) <= Max(limit, 0)
                 /\ \A k \in 1..Len(response.data) :
                        Upper(response.data[k].best_skill) = Upper(skill)
                 /\ \A k \in 1..(Len(response.data) - 1) :
                        response.data[k].z_score >= response.data[k + 1].z_score
                 /\ \A j \in 1..Len(coll) : \A k \in 1..Len(response.data) :
                        coll[j].z_score > response.data[k].z_score =>
                            \E m \in 1..Len(response.data) : response.data[m] = coll[j]

\* The records whose name is present and contains the query.
Named(name) ==
    SelectSeq(players_data,
              LAMBDA p : ~IsNaN(p.name) /\ Contains(Lower(p.name[1]), Lower(name)))

\* C7: /player/{name} ends not-found with no matching name, with the single
\* record when one name matches, with all matching records and their count
\* when several do, whether or not the snapshot holds name-less players.
C7_GetPlayerThreeOutcomes ==
    response.op = "player" =>
        LET matches == Named(response.name)
        IN  IF Len(matches) = 0 THEN response.status = 404
            ELSE IF Len(matches) = 1
            THEN response.status = 200 /\ response.data = matches[1]
            ELSE /\ response.status = 200
                 /\ response.data = matches
                 /\ response.count = Len(matches)

\* C8: started with players.json missing or unreadable, the service runs
\* with an empty collection, and / and /health report 0 loaded records.
C8_StartsEmptyWhenUnreadable ==
    (pc # "deployed" /\ file_state # "ok") =>
        /\ pc = "serving"
        /\ players_data = <<>>
        /\ response.op = "root" => response.total_players = 0
        /\ response.op = "health" => response.players_loaded = 0

====
